---- MODULE Spec2Model ----
(***************************************************************************)
(* Task endpoints, dashboard endpoints, task store accessor, validation    *)
(* helpers and rate-limit buckets of the todo application.                 *)
(* AuthGuard component and billing module are modelled next to them.        *)
(*                                                                         *)
(* A string is a sequence of characters; a character is a one-symbol       *)
(* string.  Every endpoint handler runs as one platform transaction: a     *)
(* thrown error discards all writes of the call, the rate limiter's        *)
(* included.                                                               *)
(***************************************************************************)
EXTENDS Integers, Sequences, FiniteSets, TLC

VARIABLES tasks, nextId, buckets, now, writes, res, guard, txns, pay

vars == <<tasks, nextId, buckets, now, writes, res, guard, txns, pay>>

\* tasks, nextId, buckets: the tasks table, the next id the platform issues
\* and the rate limiter's buckets; now: the clock; res, writes: the last
\* call with its outcome and the number of committed mutations; guard: the
\* AuthGuard component of the web client; txns: the platform transactions
\* in flight; pay: the billing module with the payment processor

----------------------------------------------------------------------------
(* Bounds *)

\* ids issued, clock ticks, and committed mutations in one behaviour
MaxTasks == 1
MaxTime == 1
MaxWrites == 2

\* ids issued in the create specification
CreateMaxTasks == 2

\* ids issued and committed mutations in the dashboard specification
DashMaxTasks == 3
DashMaxWrites == 5

\* ids issued, clock ticks, and ticks between two calls in the burst
\* specification
BurstMaxTasks == 21
BurstMaxTime == 8
BurstTicks == 2

\* ids issued and committed mutations in the edit specification
EditMaxTasks == 2
EditMaxWrites == 3

\* ids issued and committed mutations in the list specification
ListMaxTasks == 3
ListMaxWrites == 4

\* ids issued, of which to the other user, and clock ticks in the recent
\* specification
RecentMaxTasks == 12
RecentOthers == 1
RecentMaxTime == 3

\* ids issued and committed mutations in the remove specification
RemoveMaxTasks == 2
RemoveMaxWrites == 3

\* ids issued in the budget specification
BudgetMaxTasks == 6

\* webhook requests served in one behaviour
MaxRequests == 2

\* ids issued in the race specification
RaceMaxTasks == 2

\* ids issued and mutations committed around a summary call
SnapMaxTasks == 2
SnapMaxWrites == 3

\* calls of createSubscriptionCheckout
MaxCheckouts == 2

\* calls of cancelSubscription
MaxCancels == 2

\* length of the short strings given to the validation helpers
MaxLen == 3

----------------------------------------------------------------------------
(* Characters and strings *)

NUL == "NUL"
Whitespace == {" ", "\t"}

Rep(c, n) == [i \in 1..n |-> c]

\* the value `undefined` of an optional string argument or field
Undefined == <<"undefined">>

\* String.prototype.trim()
trim(s) ==
  IF \A i \in 1..Len(s) : s[i] \in Whitespace THEN <<>>
  ELSE LET first == CHOOSE i \in 1..Len(s) :
                       /\ s[i] \notin Whitespace
                       /\ \A j \in 1..(i - 1) : s[j] \in Whitespace
           last == CHOOSE i \in 1..Len(s) :
                       /\ s[i] \notin Whitespace
                       /\ \A j \in (i + 1)..Len(s) : s[j] \in Whitespace
       IN SubSeq(s, first, last)

\* String.prototype.slice(0, n), n >= 0
slice(s, n) == SubSeq(s, 1, IF Len(s) < n THEN Len(s) ELSE n)

NotNul(c) == c # NUL

TitleLimit == 200
DescriptionLimit == 2000

\* variant: every title is accepted
isValidTaskTitle_always(title) == TRUE

\* variant: the length check is made on the untrimmed title
isValidTaskTitle_untrimmed(title) ==
  Len(title) > 0 /\ Len(title) <= TitleLimit

isValidTaskTitle(title) ==
  LET trimmed == trim(title)
  IN Len(trimmed) > 0 /\ Len(trimmed) <= TitleLimit

\* variant: the length check is made on the trimmed description
isValidTaskDescription_trimmed(description) ==
  IF description = Undefined THEN TRUE
  ELSE Len(trim(description)) <= DescriptionLimit

isValidTaskDescription(description) ==
  IF description = Undefined THEN TRUE
  ELSE Len(description) <= DescriptionLimit

\* variant: NUL characters are left in
sanitizeString_keepNul(input, maxLength) ==
  slice(trim(input), maxLength)

sanitizeString(input, maxLength) ==
  slice(trim(SelectSeq(input, NotNul)), maxLength)

TASK_TITLE_EMPTY == "Task title cannot be empty"
TASK_TITLE_TOO_LONG == "Task title must be 200 characters or less"
TASK_DESCRIPTION_TOO_LONG == "Task description must be 2000 characters or less"

----------------------------------------------------------------------------
(* Callers, identifiers and call inputs *)

Users == {"A", "B"}

\* getAuthUser(ctx) resolves to no user
NoUser == "anonymous"

Callers == Users \cup {NoUser}

\* identifiers a call may name: issued ones and one never issued
Ids == 1..(MaxTasks + 1)

Statuses == {"active", "completed"}

\* the absent optional status argument, and the id of a call that names none
NoStatus == "undefined"
NoId == 0

\* {title, description?} arguments of create
CreateInputs ==
  { <<t, Undefined>> : t \in { <<>>, <<" ", NUL, " ">>, <<" ", "a">> } }

\* {title?, description?, status?} arguments of update
UpdateInputs ==
  { <<Undefined, Undefined, "completed">>,
    <<<<>>, Undefined, "completed">>,
    <<<<"b", NUL>>, Undefined, NoStatus>> }

\* arguments around the length limits of the text fields
TextCreateInputs ==
  { <<<<" ">>, Undefined>>,
    <<<<" ", "a">>, Undefined>>,
    <<Rep("a", 201), Undefined>>,
    <<<<"a">>, Rep("d", 2001)>> }

TextUpdateInputs ==
  { <<Rep("a", 201), Undefined, NoStatus>>,
    <<Undefined, Rep("d", 2001), NoStatus>>,
    <<<<"b">>, <<>>, NoStatus>> }

\* arguments of the dashboard specification's create
DashCreateInputs == { <<<<" ", "a">>, Undefined>> }

\* the create of a burst
BurstInputs == { <<<<"a">>, Undefined>> }

----------------------------------------------------------------------------
(* Rate limiter configuration *)

BucketNames == {"createTask", "updateTask", "deleteTask"}

MINUTE == 60000

Rate == [createTask |-> 20, updateTask |-> 50, deleteTask |-> 30]
Capacity == [createTask |-> 5, updateTask |-> 10, deleteTask |-> 5]

\* length of one clock tick in milliseconds
TickMs == 6000

\* variant: every caller draws on the buckets of user A
limit_shared(b, name, key) ==
  IF b["A"][name] >= 1
    THEN [ok |-> TRUE, retryAfter |-> 0,
          buckets |-> [b EXCEPT !["A"][name] = @ - 1]]
    ELSE [ok |-> FALSE,
          retryAfter |-> ((1 - b["A"][name]) * MINUTE) \div Rate[name],
          buckets |-> b]

\* variant: every call is let through
limit_free(b, name, key) ==
  [ok |-> TRUE, retryAfter |-> 0, buckets |-> b]

\* rateLimiter.limit(ctx, name, {key}) on bucket state b: take one token
limit(b, name, key) ==
  IF b[key][name] >= 1
    THEN [ok |-> TRUE, retryAfter |-> 0,
          buckets |-> [b EXCEPT ![key][name] = @ - 1]]
    ELSE [ok |-> FALSE,
          retryAfter |-> ((1 - b[key][name]) * MINUTE) \div Rate[name],
          buckets |-> b]

\* Math.ceil(retryAfter / 1000)
CeilSeconds(ms) == (ms + 999) \div 1000

\* tokens regained by every bucket while the clock advances one tick
refill(b) ==
  [u \in Users |->
    [n \in BucketNames |->
      LET v == b[u][n] + (Rate[n] * TickMs) \div MINUTE
      IN IF v > Capacity[n] THEN Capacity[n] ELSE v]]

\* tokens regained while the clock advances n ticks
RECURSIVE refillN(_, _)
refillN(b, n) == IF n = 0 THEN b ELSE refillN(refill(b), n - 1)

----------------------------------------------------------------------------
(* Task store accessor.  t is the tasks table: a function from the ids of   *)
(* the stored documents to their fields.  Ids are issued in creation order, *)
(* so the _creationTime order of two documents is the order of their ids.   *)

Null == [null |-> TRUE]

Doc(t, id) ==
  [_id |-> id, userId |-> t[id].userId, title |-> t[id].title,
   description |-> t[id].description, status |-> t[id].status,
   createdAt |-> t[id].createdAt, updatedAt |-> t[id].updatedAt]

\* variant: the clock is read once per timestamp
createTask_twoClocks(t, id, userId, title, description, clock) ==
  [i \in DOMAIN t \cup {id} |->
    IF i = id
      THEN [userId |-> userId, title |-> title, description |-> description,
            status |-> "active", createdAt |-> clock,
            updatedAt |-> clock + 1]
      ELSE t[i]]

createTask(t, id, userId, title, description, clock) ==
  [i \in DOMAIN t \cup {id} |->
    IF i = id
      THEN [userId |-> userId, title |-> title, description |-> description,
            status |-> "active", createdAt |-> clock, updatedAt |-> clock]
      ELSE t[i]]

getTaskById(t, id) == IF id \in DOMAIN t THEN Doc(t, id) ELSE Null

\* variant: documents of S in ascending _creationTime order
RECURSIVE collectAsc(_, _)
collectAsc(t, S) ==
  IF S = {} THEN <<>>
  ELSE LET m == CHOOSE i \in S : \A j \in S : i <= j
       IN <<Doc(t, m)>> \o collectAsc(t, S \ {m})

\* documents of S in descending _creationTime order
RECURSIVE collectDesc(_, _)
collectDesc(t, S) ==
  IF S = {} THEN <<>>
  ELSE LET m == CHOOSE i \in S : \A j \in S : j <= i
       IN <<Doc(t, m)>> \o collectDesc(t, S \ {m})

\* documents of S in descending (createdAt, _creationTime) order
RECURSIVE collectDescByCreated(_, _)
collectDescByCreated(t, S) ==
  IF S = {} THEN <<>>
  ELSE LET m == CHOOSE i \in S : \A j \in S :
                  \/ t[j].createdAt < t[i].createdAt
                  \/ t[j].createdAt = t[i].createdAt /\ j <= i
       IN <<Doc(t, m)>> \o collectDescByCreated(t, S \ {m})

by_user(t, userId) == {i \in DOMAIN t : t[i].userId = userId}

by_user_and_status(t, userId, status) ==
  {i \in DOMAIN t : t[i].userId = userId /\ t[i].status = status}

getTasksByUser(t, userId) == collectDesc(t, by_user(t, userId))

getTasksByUserAndStatus(t, userId, status) ==
  collectDesc(t, by_user_and_status(t, userId, status))

countTasksByUserAndStatus(t, userId, status) ==
  Cardinality(by_user_and_status(t, userId, status))

countTasksByUser(t, userId) == Cardinality(by_user(t, userId))

take(s, n) == SubSeq(s, 1, IF Len(s) < n THEN Len(s) ELSE n)

\* variant: the whole index range is returned
getRecentTasksByUser_noLimit(t, userId, n) ==
  collectDescByCreated(t, by_user(t, userId))

getRecentTasksByUser(t, userId, n) ==
  take(collectDescByCreated(t, by_user(t, userId)), n)

\* variant: a title that is not supplied is cleared
updateTask_replace(t, id, title, description, status, clock) ==
  [t EXCEPT ![id] =
    [userId |-> @.userId,
     title |-> IF title = Undefined THEN <<>> ELSE title,
     description |-> IF description = Undefined THEN @.description
                     ELSE description,
     status |-> IF status = NoStatus THEN @.status ELSE status,
     createdAt |-> @.createdAt,
     updatedAt |-> clock]]

\* variant: the patch stamps both timestamps
updateTask_restamp(t, id, title, description, status, clock) ==
  [t EXCEPT ![id] =
    [userId |-> @.userId,
     title |-> IF title = Undefined THEN @.title ELSE title,
     description |-> IF description = Undefined THEN @.description
                     ELSE description,
     status |-> IF status = NoStatus THEN @.status ELSE status,
     createdAt |-> clock,
     updatedAt |-> clock]]

\* ctx.db.patch with the supplied fields; an absent field is left alone
updateTask(t, id, title, description, status, clock) ==
  [t EXCEPT ![id] =
    [userId |-> @.userId,
     title |-> IF title = Undefined THEN @.title ELSE title,
     description |-> IF description = Undefined THEN @.description
                     ELSE description,
     status |-> IF status = NoStatus THEN @.status ELSE status,
     createdAt |-> @.createdAt,
     updatedAt |-> clock]]

\* variant: the new status does not depend on the old one
toggleTaskStatus_alwaysCompleted(t, id, clock) ==
  [t EXCEPT ![id].status = "completed", ![id].updatedAt = clock]

toggleTaskStatus(t, id, clock) ==
  LET newStatus == IF t[id].status = "active" THEN "completed" ELSE "active"
  IN [t EXCEPT ![id].status = newStatus, ![id].updatedAt = clock]

\* variant: the document is kept and marked
deleteTask_soft(t, id) == [t EXCEPT ![id].status = "completed"]

deleteTask(t, id) == [i \in DOMAIN t \ {id} |-> t[i]]

----------------------------------------------------------------------------
(* Outcome of one endpoint call: the error thrown (OK when none), the       *)
(* returned value, and the table and buckets the call leaves behind.        *)

OK == "ok"
NOT_AUTHENTICATED == "Not authenticated"
RATE_LIMITED == "Rate limit exceeded"
NOT_FOUND == "Task not found"
NOT_AUTHORIZED_VIEW == "Not authorized to view this task"
NOT_AUTHORIZED_UPDATE == "Not authorized to update this task"
NOT_AUTHORIZED_DELETE == "Not authorized to delete this task"

NoNum == [none |-> TRUE]

\* a thrown error: the transaction is discarded
Throw(msg) ==
  [err |-> msg, retry |-> 0, ret |-> NoId, val |-> <<>>, num |-> NoNum,
   tasks |-> tasks, nextId |-> nextId, buckets |-> buckets]

\* `Rate limit exceeded. Please try again in N seconds.`
ThrowRateLimit(retryAfter) ==
  [err |-> RATE_LIMITED, retry |-> CeilSeconds(retryAfter), ret |-> NoId,
   val |-> <<>>, num |-> NoNum,
   tasks |-> tasks, nextId |-> nextId, buckets |-> buckets]

\* a query's result
Return(val, num) ==
  [err |-> OK, retry |-> 0, ret |-> NoId, val |-> val, num |-> num,
   tasks |-> tasks, nextId |-> nextId, buckets |-> buckets]

\* a mutation's commit
Commit(ret, t, n, b) ==
  [err |-> OK, retry |-> 0, ret |-> ret, val |-> <<>>, num |-> NoNum,
   tasks |-> t, nextId |-> n, buckets |-> b]

----------------------------------------------------------------------------
(* Endpoint layer: tasks *)

create(caller, title, description) ==
  IF caller = NoUser THEN Throw(NOT_AUTHENTICATED)
  ELSE
  LET rateLimitStatus == limit(buckets, "createTask", caller) IN
  IF ~rateLimitStatus.ok THEN ThrowRateLimit(rateLimitStatus.retryAfter)
  ELSE
  LET sanitizedTitle == sanitizeString(title, 200)
      \* an empty string is falsy
      sanitizedDescription ==
        IF description # Undefined /\ Len(description) > 0
          THEN sanitizeString(description, 2000)
          ELSE Undefined
  IN
  IF ~isValidTaskTitle(sanitizedTitle)
    THEN IF Len(trim(sanitizedTitle)) = 0
           THEN Throw(TASK_TITLE_EMPTY)
           ELSE Throw(TASK_TITLE_TOO_LONG)
  ELSE IF ~isValidTaskDescription(sanitizedDescription)
    THEN Throw(TASK_DESCRIPTION_TOO_LONG)
  ELSE Commit(nextId,
              createTask(tasks, nextId, caller, sanitizedTitle,
                         sanitizedDescription, now),
              nextId + 1,
              rateLimitStatus.buckets)

\* variant: no authentication check
list_noAuth(caller) ==
  Return(getTasksByUser(tasks, caller), NoNum)

list(caller) ==
  IF caller = NoUser THEN Throw(NOT_AUTHENTICATED)
  ELSE Return(getTasksByUser(tasks, caller), NoNum)

listByStatus(caller, status) ==
  IF caller = NoUser THEN Throw(NOT_AUTHENTICATED)
  ELSE Return(getTasksByUserAndStatus(tasks, caller, status), NoNum)

\* variant: no ownership check
get_noOwnerCheck(caller, id) ==
  IF caller = NoUser THEN Throw(NOT_AUTHENTICATED)
  ELSE
  LET task == getTaskById(tasks, id) IN
  IF task = Null THEN Throw(NOT_FOUND)
  ELSE Return(<<task>>, NoNum)

get(caller, id) ==
  IF caller = NoUser THEN Throw(NOT_AUTHENTICATED)
  ELSE
  LET task == getTaskById(tasks, id) IN
  IF task = Null THEN Throw(NOT_FOUND)
  ELSE IF task.userId # caller THEN Throw(NOT_AUTHORIZED_VIEW)
  ELSE Return(<<task>>, NoNum)

\* variant: the status is patched before the text fields are validated
update_partialApply(caller, id, title, description, status) ==
  IF caller = NoUser THEN Throw(NOT_AUTHENTICATED)
  ELSE
  LET rateLimitStatus == limit(buckets, "updateTask", caller) IN
  IF ~rateLimitStatus.ok THEN ThrowRateLimit(rateLimitStatus.retryAfter)
  ELSE
  LET task == getTaskById(tasks, id) IN
  IF task = Null THEN Throw(NOT_FOUND)
  ELSE IF task.userId # caller THEN Throw(NOT_AUTHORIZED_UPDATE)
  ELSE
  LET sanitizedTitle ==
        IF title # Undefined THEN sanitizeString(title, 200) ELSE Undefined
      sanitizedDescription ==
        IF description # Undefined THEN sanitizeString(description, 2000)
        ELSE Undefined
      patched == updateTask(tasks, id, Undefined, Undefined, status, now)
  IN
  IF title # Undefined /\ ~isValidTaskTitle(sanitizedTitle)
    THEN [Throw(TASK_TITLE_EMPTY) EXCEPT !.tasks = patched]
  ELSE IF description # Undefined
          /\ ~isValidTaskDescription(sanitizedDescription)
    THEN [Throw(TASK_DESCRIPTION_TOO_LONG) EXCEPT !.tasks = patched]
  ELSE Commit(NoId,
              updateTask(tasks, id, sanitizedTitle, sanitizedDescription,
                         status, now),
              nextId,
              rateLimitStatus.buckets)

update(caller, id, title, description, status) ==
  IF caller = NoUser THEN Throw(NOT_AUTHENTICATED)
  ELSE
  LET rateLimitStatus == limit(buckets, "updateTask", caller) IN
  IF ~rateLimitStatus.ok THEN ThrowRateLimit(rateLimitStatus.retryAfter)
  ELSE
  LET task == getTaskById(tasks, id) IN
  IF task = Null THEN Throw(NOT_FOUND)
  ELSE IF task.userId # caller THEN Throw(NOT_AUTHORIZED_UPDATE)
  ELSE
  LET sanitizedTitle ==
        IF title # Undefined THEN sanitizeString(title, 200) ELSE Undefined
      sanitizedDescription ==
        IF description # Undefined THEN sanitizeString(description, 2000)
        ELSE Undefined
  IN
  IF title # Undefined /\ ~isValidTaskTitle(sanitizedTitle)
    THEN IF Len(trim(sanitizedTitle)) = 0
           THEN Throw(TASK_TITLE_EMPTY)
           ELSE Throw(TASK_TITLE_TOO_LONG)
  ELSE IF description # Undefined
          /\ ~isValidTaskDescription(sanitizedDescription)
    THEN Throw(TASK_DESCRIPTION_TOO_LONG)
  ELSE Commit(NoId,
              updateTask(tasks, id, sanitizedTitle, sanitizedDescription,
                         status, now),
              nextId,
              rateLimitStatus.buckets)

\* variant: the task is fetched and its owner checked before the rate limit
toggleStatus_ownerFirst(caller, id) ==
  IF caller = NoUser THEN Throw(NOT_AUTHENTICATED)
  ELSE
  LET task == getTaskById(tasks, id) IN
  IF task = Null THEN Throw(NOT_FOUND)
  ELSE IF task.userId # caller THEN Throw(NOT_AUTHORIZED_UPDATE)
  ELSE
  LET rateLimitStatus == limit(buckets, "updateTask", caller) IN
  IF ~rateLimitStatus.ok THEN ThrowRateLimit(rateLimitStatus.retryAfter)
  ELSE Commit(NoId, toggleTaskStatus(tasks, id, now), nextId,
              rateLimitStatus.buckets)

\* variant: the token is drawn from the deleteTask bucket
toggleStatus_deleteBucket(caller, id) ==
  IF caller = NoUser THEN Throw(NOT_AUTHENTICATED)
  ELSE
  LET rateLimitStatus == limit(buckets, "deleteTask", caller) IN
  IF ~rateLimitStatus.ok THEN ThrowRateLimit(rateLimitStatus.retryAfter)
  ELSE
  LET task == getTaskById(tasks, id) IN
  IF task = Null THEN Throw(NOT_FOUND)
  ELSE IF task.userId # caller THEN Throw(NOT_AUTHORIZED_UPDATE)
  ELSE Commit(NoId, toggleTaskStatus(tasks, id, now), nextId,
              rateLimitStatus.buckets)

toggleStatus(caller, id) ==
  IF caller = NoUser THEN Throw(NOT_AUTHENTICATED)
  ELSE
  LET rateLimitStatus == limit(buckets, "updateTask", caller) IN
  IF ~rateLimitStatus.ok THEN ThrowRateLimit(rateLimitStatus.retryAfter)
  ELSE
  LET task == getTaskById(tasks, id) IN
  IF task = Null THEN Throw(NOT_FOUND)
  ELSE IF task.userId # caller THEN Throw(NOT_AUTHORIZED_UPDATE)
  ELSE Commit(NoId, toggleTaskStatus(tasks, id, now), nextId,
              rateLimitStatus.buckets)

\* variant: no ownership check
remove_noOwnerCheck(caller, id) ==
  IF caller = NoUser THEN Throw(NOT_AUTHENTICATED)
  ELSE
  LET rateLimitStatus == limit(buckets, "deleteTask", caller) IN
  IF ~rateLimitStatus.ok THEN ThrowRateLimit(rateLimitStatus.retryAfter)
  ELSE
  LET task == getTaskById(tasks, id) IN
  IF task = Null THEN Throw(NOT_FOUND)
  ELSE Commit(NoId, deleteTask(tasks, id), nextId, rateLimitStatus.buckets)

remove(caller, id) ==
  IF caller = NoUser THEN Throw(NOT_AUTHENTICATED)
  ELSE
  LET rateLimitStatus == limit(buckets, "deleteTask", caller) IN
  IF ~rateLimitStatus.ok THEN ThrowRateLimit(rateLimitStatus.retryAfter)
  ELSE
  LET task == getTaskById(tasks, id) IN
  IF task = Null THEN Throw(NOT_FOUND)
  ELSE IF task.userId # caller THEN Throw(NOT_AUTHORIZED_DELETE)
  ELSE Commit(NoId, deleteTask(tasks, id), nextId, rateLimitStatus.buckets)

----------------------------------------------------------------------------
(* Endpoint layer: dashboard *)

\* variant: the quotient is truncated
MathRound_floor(p, q) == p \div q

\* Math.round of the non-negative rational p / q: halves round up
MathRound(p, q) == (2 * p + q) \div (2 * q)

summary(caller) ==
  IF caller = NoUser THEN Throw(NOT_AUTHENTICATED)
  ELSE
  LET totalTasks == countTasksByUser(tasks, caller)
      activeTasks == countTasksByUserAndStatus(tasks, caller, "active")
      completedTasks == countTasksByUserAndStatus(tasks, caller, "completed")
      completionRate ==
        IF totalTasks > 0 THEN MathRound(completedTasks * 100, totalTasks)
        ELSE 0
  IN Return(<<>>, [totalTasks |-> totalTasks, activeTasks |-> activeTasks,
                   completedTasks |-> completedTasks,
                   completionRate |-> completionRate])

recent(caller) ==
  IF caller = NoUser THEN Throw(NOT_AUTHENTICATED)
  ELSE Return(getRecentTasksByUser(tasks, caller, 10), NoNum)

tasksByStatus(caller) ==
  IF caller = NoUser THEN Throw(NOT_AUTHENTICATED)
  ELSE
  LET active == countTasksByUserAndStatus(tasks, caller, "active")
      completed == countTasksByUserAndStatus(tasks, caller, "completed")
  IN Return(<<>>, [active |-> active, completed |-> completed])

----------------------------------------------------------------------------
(* State machine.  res records the last call and what its caller observed:  *)
(* the arguments, the status the named task had before the call (was),      *)
(* the error message, and the returned value.  writes counts the committed  *)
(* mutations of the behaviour, which the specifications bound.              *)

StatusOf(t, id) == IF id \in DOMAIN t THEN t[id].status ELSE "none"

\* the call's writes and what its caller observed
Record(op, caller, id, title, description, status, o) ==
  /\ tasks' = o.tasks
  /\ nextId' = o.nextId
  /\ buckets' = o.buckets
  /\ res' = [op |-> op, caller |-> caller, id |-> id, title |-> title,
             description |-> description, status |-> status,
             was |-> StatusOf(tasks, id),
             err |-> o.err, retry |-> o.retry, ret |-> o.ret,
             val |-> o.val, num |-> o.num]

Observe(op, caller, id, title, description, status, o) ==
  /\ Record(op, caller, id, title, description, status, o)
  /\ UNCHANGED <<now, guard, txns, pay>>

Query(op, caller, id, status, o) ==
  /\ Observe(op, caller, id, Undefined, Undefined, status, o)
  /\ UNCHANGED writes

Mutation(op, caller, id, title, description, status, o, maxWrites) ==
  /\ o.err = OK => writes < maxWrites
  /\ Observe(op, caller, id, title, description, status, o)
  /\ writes' = IF o.err = OK THEN writes + 1 ELSE writes

\* nothing is mounted, no transaction is in flight, no billing call was made
NotMounted == [mounted |-> FALSE]
NoTxns == <<>>
NoBilling == [none |-> TRUE]

Detached ==
  /\ guard = NotMounted
  /\ txns = NoTxns
  /\ pay = NoBilling

\* a bucket set nobody has drawn on, and one drawn down to nothing
FreshBuckets == [n \in BucketNames |-> Capacity[n]]
DrainedBuckets == [n \in BucketNames |-> 0]

\* The table is empty; A's buckets are full; B's are full, or B has just
\* spent them all on tasks it created, changed and removed again (the case
\* of A having done so mirrors it).
Init ==
  /\ tasks = <<>>
  /\ nextId = 1
  /\ buckets \in {[u \in Users |-> IF u = "B" THEN b ELSE FreshBuckets] :
                    b \in {FreshBuckets, DrainedBuckets}}
  /\ now = 0
  /\ writes = 0
  /\ res = [op |-> "none", caller |-> NoUser, id |-> NoId,
            title |-> Undefined, description |-> Undefined,
            status |-> NoStatus, was |-> "none",
            err |-> OK, retry |-> 0, ret |-> NoId,
            val |-> <<>>, num |-> NoNum]
  /\ Detached

Create(callers, inputs, maxTasks, maxWrites) ==
  \E caller \in callers, in \in inputs :
    LET o == create(caller, in[1], in[2]) IN
    /\ o.nextId <= maxTasks + 1
    /\ Mutation("create", caller, NoId, in[1], in[2], NoStatus, o, maxWrites)

List(callers) ==
  \E caller \in callers :
    Query("list", caller, NoId, NoStatus, list(caller))

ListByStatus(callers) ==
  \E caller \in callers, status \in Statuses :
    Query("listByStatus", caller, NoId, status, listByStatus(caller, status))

Get(callers, ids) ==
  \E caller \in callers, id \in ids :
    Query("get", caller, id, NoStatus, get(caller, id))

Update(callers, ids, inputs, maxWrites) ==
  \E caller \in callers, id \in ids, in \in inputs :
    Mutation("update", caller, id, in[1], in[2], in[3],
             update(caller, id, in[1], in[2], in[3]), maxWrites)

ToggleStatus(callers, ids, maxWrites) ==
  \E caller \in callers, id \in ids :
    Mutation("toggleStatus", caller, id, Undefined, Undefined, NoStatus,
             toggleStatus(caller, id), maxWrites)

Remove(callers, ids, maxWrites) ==
  \E caller \in callers, id \in ids :
    Mutation("remove", caller, id, Undefined, Undefined, NoStatus,
             remove(caller, id), maxWrites)

Summary(callers) ==
  \E caller \in callers :
    Query("summary", caller, NoId, NoStatus, summary(caller))

Recent(callers) ==
  \E caller \in callers :
    Query("recent", caller, NoId, NoStatus, recent(caller))

TasksByStatus(callers) ==
  \E caller \in callers :
    Query("tasksByStatus", caller, NoId, NoStatus, tasksByStatus(caller))

\* the clock advances one tick and every bucket regains its tokens
Tick ==
  /\ now < MaxTime
  /\ now' = now + 1
  /\ buckets' = refill(buckets)
  /\ UNCHANGED <<tasks, nextId, writes, res, guard, txns, pay>>

\* nobody calls for some ticks
Wait(ticks, maxTime) ==
  /\ now + ticks <= maxTime
  /\ now' = now + ticks
  /\ buckets' = refillN(buckets, ticks)
  /\ UNCHANGED <<tasks, nextId, writes, res, guard, txns, pay>>

Next ==
  \/ Create(Callers, CreateInputs, MaxTasks, MaxWrites)
  \/ List(Callers)
  \/ ListByStatus(Callers)
  \/ Get(Callers, Ids)
  \/ Update(Callers, Ids, UpdateInputs, MaxWrites)
  \/ ToggleStatus(Callers, Ids, MaxWrites)
  \/ Remove(Callers, Ids, MaxWrites)
  \/ Summary(Callers)
  \/ Recent(Callers)
  \/ TasksByStatus(Callers)
  \/ Tick

Spec == Init /\ [][Next]_vars

\* one user's calls with text fields around the length limits
NextText ==
  \/ Create({"A"}, TextCreateInputs, MaxTasks, MaxWrites)
  \/ Update({"A"}, Ids, TextUpdateInputs, MaxWrites)
  \/ Get({"A"}, Ids)
  \/ Tick

SpecText == Init /\ [][NextText]_vars

\* creates and lists by every caller while the clock advances
NextCreate ==
  \/ Create(Callers, CreateInputs, CreateMaxTasks, CreateMaxTasks)
  \/ List(Callers)
  \/ Tick

SpecCreate == Init /\ [][NextCreate]_vars

\* longer runs of the users' calls that decide the dashboard's counts
NextDash ==
  \/ Create(Users, DashCreateInputs, DashMaxTasks, DashMaxWrites)
  \/ ToggleStatus(Users, 1..DashMaxTasks, DashMaxWrites)
  \/ Remove(Users, 1..DashMaxTasks, DashMaxWrites)
  \/ Summary(Users)
  \/ TasksByStatus(Users)

SpecDash == Init /\ [][NextDash]_vars

\* one user's burst of creates, at any of the instants BurstTicks apart
NextBurst ==
  \/ Create({"A"}, BurstInputs, BurstMaxTasks, BurstMaxTasks)
  \/ Wait(BurstTicks, BurstMaxTime)

SpecBurst == Init /\ [][NextBurst]_vars

\* the users' creates and updates while the clock advances
NextEdit ==
  \/ Create(Users, DashCreateInputs, EditMaxTasks, EditMaxWrites)
  \/ Update(Users, 1..EditMaxTasks, UpdateInputs, EditMaxWrites)
  \/ Tick

SpecEdit == Init /\ [][NextEdit]_vars

\* the users' creates, toggles and lists while the clock advances
NextList ==
  \/ Create(Users, DashCreateInputs, ListMaxTasks, ListMaxWrites)
  \/ ToggleStatus(Users, 1..ListMaxTasks, ListMaxWrites)
  \/ List(Users)
  \/ ListByStatus(Users)
  \/ Tick

SpecList == Init /\ [][NextList]_vars

\* B creates the first tasks, A the later ones, and both ask for their
\* recent tasks
NextRecent ==
  \/ Create({"B"}, DashCreateInputs, RecentOthers, RecentMaxTasks)
  \/ Create({"A"}, DashCreateInputs, RecentMaxTasks, RecentMaxTasks)
  \/ Recent(Users)
  \/ Wait(1, RecentMaxTime)

SpecRecent == Init /\ [][NextRecent]_vars

\* the users' creates and removes, and their calls on single tasks, lists
\* and dashboard counts around them
NextRemove ==
  \/ Create(Users, DashCreateInputs, RemoveMaxTasks, RemoveMaxWrites)
  \/ Remove(Users, 1..RemoveMaxTasks, RemoveMaxWrites)
  \/ Get(Users, 1..RemoveMaxTasks)
  \/ Update(Users, 1..RemoveMaxTasks, UpdateInputs, RemoveMaxWrites)
  \/ ToggleStatus(Users, 1..RemoveMaxTasks, RemoveMaxWrites)
  \/ List(Users)
  \/ Summary(Users)
  \/ TasksByStatus(Users)

SpecRemove == Init /\ [][NextRemove]_vars

\* both users create until their createTask buckets are empty
NextBudget ==
  \/ Create(Users, BurstInputs, BudgetMaxTasks, BudgetMaxTasks)
  \/ Tick

SpecBudget == Init /\ [][NextBudget]_vars

----------------------------------------------------------------------------
(* The validation helpers, called on their own.  res records the call:     *)
(* the helper, its arguments and what it returned.                          *)

Alphabet == {"a", " ", NUL}

\* every string of at most MaxLen characters
ShortStrings == UNION {[1..n -> Alphabet] : n \in 0..MaxLen}

\* titles whose trimmed length is around the limit, with and without
\* whitespace around them
TitleEdges ==
  {Rep(" ", l) \o Rep("a", n) \o Rep(" ", r) :
     l \in 0..1, r \in 0..1, n \in (TitleLimit - 1)..(TitleLimit + 1)}

\* descriptions whose length is around the limit, of text and of blanks
DescriptionEdges ==
  {Rep(c, n) :
     c \in {"d", " "}, n \in (DescriptionLimit - 1)..(DescriptionLimit + 1)}

ValidationInputs == ShortStrings \cup TitleEdges \cup DescriptionEdges

MaxLengths == 0..MaxLen \cup {TitleLimit}

InitValidation ==
  /\ tasks = <<>>
  /\ nextId = 1
  /\ buckets = [u \in Users |-> FreshBuckets]
  /\ now = 0
  /\ writes = 0
  /\ \E input \in ValidationInputs \cup {Undefined} :
       res = [op |-> "none", input |-> input, maxLength |-> 0,
              output |-> <<>>]
  /\ Detached

Helper(op, maxLength, output) ==
  /\ res' = [op |-> op, input |-> res.input, maxLength |-> maxLength,
             output |-> output]
  /\ UNCHANGED <<tasks, nextId, buckets, now, writes, guard, txns, pay>>

SanitizeString ==
  /\ res.input # Undefined
  /\ \E maxLength \in MaxLengths :
       Helper("sanitizeString", maxLength,
              sanitizeString(res.input, maxLength))

IsValidTaskTitle ==
  /\ res.input # Undefined
  /\ Helper("isValidTaskTitle", 0, isValidTaskTitle(res.input))

IsValidTaskDescription ==
  Helper("isValidTaskDescription", 0, isValidTaskDescription(res.input))

NextValidation ==
  \/ SanitizeString
  \/ IsValidTaskTitle
  \/ IsValidTaskDescription

SpecValidation == InitValidation /\ [][NextValidation]_vars

----------------------------------------------------------------------------
(* Web client: the AuthGuard component around a protected page.  guard     *)
(* holds what useSession() currently yields (isPending, session), the      *)
(* values the last render saw (seen), what that render returned (output),  *)
(* whether a new render is due (dirty), whether the effect of the last     *)
(* render is still to run (effect), whether router.push was called since   *)
(* the mount (pushed), and the route (location).                           *)

SIGN_IN == "/sign-in"
PROTECTED == "/"

\* variant: the pending flag is not looked at
AuthGuardRender_sessionOnly(isPending, session) ==
  IF session = NoUser THEN "null" ELSE "children"

\* what AuthGuard returns
AuthGuardRender(isPending, session) ==
  IF isPending THEN "skeleton"
  ELSE IF session = NoUser THEN "null"
  ELSE "children"

\* the values of useSession(): a session is that of a user, or absent
HookValues == [isPending : BOOLEAN, session : Callers]

InitGuard ==
  /\ tasks = <<>>
  /\ nextId = 1
  /\ buckets = [u \in Users |-> FreshBuckets]
  /\ now = 0
  /\ writes = 0
  /\ res = [op |-> "none"]
  /\ txns = NoTxns
  /\ pay = NoBilling
  /\ guard = [mounted |-> FALSE, isPending |-> TRUE, session |-> NoUser,
              seen |-> [isPending |-> TRUE, session |-> NoUser],
              output |-> "none", dirty |-> FALSE, effect |-> FALSE,
              pushed |-> FALSE, location |-> PROTECTED]

GuardStep(g) ==
  /\ guard' = g
  /\ UNCHANGED <<tasks, nextId, buckets, now, writes, res, txns, pay>>

\* the first render of the component; the effect of a first render always
\* runs
Mount ==
  /\ ~guard.mounted
  /\ guard.location = PROTECTED
  /\ GuardStep([guard EXCEPT
        !.mounted = TRUE,
        !.seen = [isPending |-> guard.isPending, session |-> guard.session],
        !.output = AuthGuardRender(guard.isPending, guard.session),
        !.dirty = FALSE,
        !.effect = TRUE,
        !.pushed = FALSE])

\* the session store changes what useSession() yields
SessionChange ==
  \E h \in HookValues :
    /\ <<h.isPending, h.session>> # <<guard.isPending, guard.session>>
    /\ GuardStep([guard EXCEPT !.isPending = h.isPending,
                               !.session = h.session,
                               !.dirty = guard.mounted])

\* a render after a change; pending effects are run before it, and its own
\* effect is due when [session, isPending, router] differ from what the
\* render before it saw
Rerender ==
  /\ guard.mounted
  /\ guard.dirty
  /\ ~guard.effect
  /\ LET saw == [isPending |-> guard.isPending, session |-> guard.session]
     IN GuardStep([guard EXCEPT
          !.seen = saw,
          !.output = AuthGuardRender(guard.isPending, guard.session),
          !.dirty = FALSE,
          !.effect = (saw # guard.seen)])

\* the effect, with the values its render saw
RunEffect ==
  /\ guard.mounted
  /\ guard.effect
  /\ IF ~guard.seen.isPending /\ guard.seen.session = NoUser
       THEN GuardStep([guard EXCEPT !.effect = FALSE, !.pushed = TRUE,
                                    !.location = SIGN_IN])
       ELSE GuardStep([guard EXCEPT !.effect = FALSE])

\* the page is left, by the navigation or otherwise
Unmount ==
  /\ guard.mounted
  /\ GuardStep([guard EXCEPT !.mounted = FALSE, !.output = "none",
                             !.dirty = FALSE, !.effect = FALSE])

\* the protected page is opened again
Visit ==
  /\ ~guard.mounted
  /\ guard.location # PROTECTED
  /\ GuardStep([guard EXCEPT !.location = PROTECTED])

NextGuard ==
  \/ Mount
  \/ SessionChange
  \/ Rerender
  \/ RunEffect
  \/ Unmount
  \/ Visit

SpecGuard == InitGuard /\ [][NextGuard]_vars

----------------------------------------------------------------------------
(* Concurrent mutations.  The platform runs every mutation as a            *)
(* serializable transaction: the handler runs on what it read, and its     *)
(* writes are committed only if nothing it read has changed since;         *)
(* otherwise the platform runs the handler again.  txns holds the two      *)
(* toggleStatus calls in flight: the caller and id, the task and bucket    *)
(* the handler read, the status the task had when the call was made (was), *)
(* whether the other call was in flight at some point of this one          *)
(* (overlap), and the outcome.                                             *)

Slots == {1, 2}

Idle == [pc |-> "idle"]

InitRace ==
  /\ tasks = <<>>
  /\ nextId = 1
  /\ buckets = [u \in Users |-> FreshBuckets]
  /\ now = 0
  /\ writes = 0
  /\ res = [op |-> "none", caller |-> NoUser, id |-> NoId,
            title |-> Undefined, description |-> Undefined,
            status |-> NoStatus, was |-> "none",
            err |-> OK, retry |-> 0, ret |-> NoId,
            val |-> <<>>, num |-> NoNum]
  /\ guard = NotMounted
  /\ pay = NoBilling
  /\ txns = [s \in Slots |-> Idle]

\* what the toggleStatus handler reads: the caller's updateTask bucket and
\* the task
reads(caller, id) ==
  [task |-> getTaskById(tasks, id), bucket |-> buckets[caller]["updateTask"]]

\* a toggleStatus call arrives and its handler runs
Begin(s) ==
  /\ txns[s].pc = "idle"
  /\ \E caller \in Users, id \in 1..RaceMaxTasks :
       LET other == CHOOSE o \in Slots : o # s
           concurrent == txns[other].pc = "running"
       IN txns' = [txns EXCEPT
            ![s] = [pc |-> "running", caller |-> caller, id |-> id,
                    read |-> reads(caller, id),
                    was |-> StatusOf(tasks, id),
                    overlap |-> concurrent, retries |-> 0, err |-> OK],
            ![other] = IF concurrent
                         THEN [@ EXCEPT !.overlap = TRUE]
                         ELSE @]
  /\ UNCHANGED <<tasks, nextId, buckets, now, writes, res, guard, pay>>

\* the transaction commits: what the handler read is still there, so its
\* outcome is that of the handler on the present state
CommitTxn(s) ==
  /\ txns[s].pc = "running"
  /\ txns[s].read = reads(txns[s].caller, txns[s].id)
  /\ LET o == toggleStatus(txns[s].caller, txns[s].id) IN
     /\ Record("toggleStatus", txns[s].caller, txns[s].id, Undefined,
               Undefined, NoStatus, o)
     /\ txns' = [txns EXCEPT ![s].pc = "done", ![s].err = o.err]
     /\ writes' = IF o.err = OK THEN writes + 1 ELSE writes
  /\ UNCHANGED <<now, guard, pay>>

\* the transaction conflicts with one committed meanwhile: the handler
\* runs again
Retry(s) ==
  /\ txns[s].pc = "running"
  /\ txns[s].read # reads(txns[s].caller, txns[s].id)
  /\ txns' = [txns EXCEPT ![s].read = reads(txns[s].caller, txns[s].id),
                          ![s].retries = @ + 1]
  /\ UNCHANGED <<tasks, nextId, buckets, now, writes, res, guard, pay>>

NextRace ==
  \/ Create(Users, DashCreateInputs, RaceMaxTasks, RaceMaxTasks)
  \/ \E s \in Slots : Begin(s)
  \/ \E s \in Slots : CommitTxn(s)
  \/ \E s \in Slots : Retry(s)

SpecRace == InitRace /\ [][NextRace]_vars

----------------------------------------------------------------------------
(* The summary query step by step.  The handler awaits three reads, so     *)
(* mutations may commit between them; a query's handler reads the table as *)
(* it stood when the query started.                                        *)

\* variant: each read sees the table of the moment
queryDb_live(view, live) == live

\* the table behind a query handler's ctx.db
queryDb(view, live) == view

InitSnapshot ==
  /\ tasks = <<>>
  /\ nextId = 1
  /\ buckets = [u \in Users |-> FreshBuckets]
  /\ now = 0
  /\ writes = 0
  /\ res = [op |-> "none", caller |-> NoUser, id |-> NoId,
            title |-> Undefined, description |-> Undefined,
            status |-> NoStatus, was |-> "none",
            err |-> OK, retry |-> 0, ret |-> NoId,
            val |-> <<>>, num |-> NoNum]
  /\ guard = NotMounted
  /\ pay = NoBilling
  /\ txns = Idle

\* a summary call of an authenticated user arrives
SummaryBegin ==
  /\ txns.pc \in {"idle", "done"}
  /\ \E caller \in Users :
       txns' = [pc |-> "total", caller |-> caller, view |-> tasks,
                first |-> tasks, raced |-> FALSE,
                totalTasks |-> 0, activeTasks |-> 0, completedTasks |-> 0,
                completionRate |-> 0]
  /\ UNCHANGED <<tasks, nextId, buckets, now, writes, res, guard, pay>>

\* const totalTasks = await Tasks.countTasksByUser(ctx, authUser._id)
ReadTotal ==
  /\ txns.pc = "total"
  /\ txns' = [txns EXCEPT
       !.pc = "active",
       !.first = tasks,
       !.totalTasks = countTasksByUser(queryDb(txns.view, tasks),
                                       txns.caller)]
  /\ UNCHANGED <<tasks, nextId, buckets, now, writes, res, guard, pay>>

\* const activeTasks = await Tasks.countTasksByUserAndStatus(.., "active")
ReadActive ==
  /\ txns.pc = "active"
  /\ txns' = [txns EXCEPT
       !.pc = "completed",
       !.activeTasks = countTasksByUserAndStatus(queryDb(txns.view, tasks),
                                                 txns.caller, "active")]
  /\ UNCHANGED <<tasks, nextId, buckets, now, writes, res, guard, pay>>

\* const completedTasks = await Tasks.countTasksByUserAndStatus(..,
\* "completed"), the completion rate and the return
ReadCompletedAndReturn ==
  /\ txns.pc = "completed"
  /\ LET totalTasks == txns.totalTasks
         completedTasks ==
           countTasksByUserAndStatus(queryDb(txns.view, tasks),
                                     txns.caller, "completed")
         completionRate ==
           IF totalTasks > 0 THEN MathRound(completedTasks * 100, totalTasks)
           ELSE 0
     IN /\ txns' = [txns EXCEPT !.pc = "done",
                                !.raced = (txns.first # tasks),
                                !.completedTasks = completedTasks,
                                !.completionRate = completionRate]
        /\ Record("summary", txns.caller, NoId, Undefined, Undefined,
                  NoStatus,
                  Return(<<>>, [totalTasks |-> totalTasks,
                                activeTasks |-> txns.activeTasks,
                                completedTasks |-> completedTasks,
                                completionRate |-> completionRate]))
  /\ UNCHANGED <<now, writes, guard, pay>>

\* the users' mutations between the steps of a summary call
NextSnapshot ==
  \/ Create(Users, DashCreateInputs, SnapMaxTasks, SnapMaxWrites)
  \/ ToggleStatus(Users, 1..SnapMaxTasks, SnapMaxWrites)
  \/ Remove(Users, 1..SnapMaxTasks, SnapMaxWrites)
  \/ SummaryBegin
  \/ ReadTotal
  \/ ReadActive
  \/ ReadCompletedAndReturn

SpecSnapshot == InitSnapshot /\ [][NextSnapshot]_vars

----------------------------------------------------------------------------
(* Billing: the /stripe/webhook route.  A request carries a body, which is *)
(* an event, and possibly a signature, which names the body and the key it *)
(* was made with.  The functions the handlers run through ctx.runMutation, *)
(* ctx.runQuery and ctx.scheduler are not part of this module: pay.calls   *)
(* logs the mutations and scheduled functions that went through, which is  *)
(* every state change a request causes.  A mutation or query may throw,    *)
(* and then it changes nothing.                                            *)

STRIPE_WEBHOOK_SECRET == "whsec"
MISSING_SIGNATURE == "Missing signature"
RECEIVED == "{received: true}"
ERROR_BODY == "{error: error.message}"

HandledTypes ==
  {"checkout.session.completed", "customer.subscription.created",
   "customer.subscription.updated", "customer.subscription.deleted",
   "invoice.paid", "invoice.payment_failed"}

\* event.type, session.mode and subscription.status of the events sent
Events ==
  {[type |-> "checkout.session.completed", mode |-> m, status |-> "active"] :
     m \in {"subscription", "payment"}}
  \cup {[type |-> "customer.subscription.created", mode |-> "subscription",
         status |-> st] : st \in {"active", "trialing"}}
  \cup {[type |-> t, mode |-> "subscription", status |-> "active"] :
         t \in (HandledTypes \ {"checkout.session.completed",
                                "customer.subscription.created"})
                \cup {"customer.created"}}

NoSignature == [none |-> TRUE]

\* the body a signature was made for when it was not made for the body sent
SignedInstead ==
  [type |-> "invoice.paid", mode |-> "subscription", status |-> "active"]

\* no signature, or one made for the body sent or for another body, with
\* the webhook secret or with another key
SignaturesFor(body) ==
  {NoSignature}
  \cup [body : {body, SignedInstead},
        key : {STRIPE_WEBHOOK_SECRET, "whsec_other"}]

Requests ==
  UNION {[body : {body}, signature : SignaturesFor(body)] : body \in Events}

\* variant: a signature made with any key is accepted
constructEvent_anyKey(body, signature, secret) ==
  signature.body = body

\* stripe.webhooks.constructEvent: TRUE when it returns the event, FALSE
\* when it throws
constructEvent(body, signature, secret) ==
  signature.body = body /\ signature.key = secret

runMutation(fn) == [kind |-> "mutation", fn |-> fn]
runQuery(fn) == [kind |-> "query", fn |-> fn]
runAfter(fn) == [kind |-> "schedule", fn |-> fn]

\* the calls a handler makes, in order; found: its query returned a record
handleCheckoutCompleted(session) ==
  IF session.mode = "subscription"
    THEN <<runMutation("subscriptions.activate")>>
    ELSE <<runMutation("payments.markPaid")>>

handleSubscriptionCreated(subscription) ==
  <<runMutation("subscriptions.create")>>
  \o IF subscription.status = "active"
       THEN <<runAfter("email.send.sendWelcomeEmail")>>
       ELSE <<>>

handleSubscriptionUpdated(subscription) ==
  <<runMutation("subscriptions.update")>>

handleSubscriptionDeleted(subscription, found) ==
  <<runMutation("subscriptions.delete"),
    runQuery("subscriptions.getByStripeId")>>
  \o IF found THEN <<runMutation("users.downgradeFeatures")>> ELSE <<>>

handleInvoicePaid(invoice) ==
  <<runMutation("payments.createInvoiceRecord")>>

handleInvoicePaymentFailed(invoice, found) ==
  <<runQuery("subscriptions.getByStripeId")>>
  \o IF found THEN <<runAfter("notifications.create")>> ELSE <<>>

\* switch (event.type)
dispatch(event, found) ==
  CASE event.type = "checkout.session.completed" ->
         handleCheckoutCompleted(event)
    [] event.type = "customer.subscription.created" ->
         handleSubscriptionCreated(event)
    [] event.type = "customer.subscription.updated" ->
         handleSubscriptionUpdated(event)
    [] event.type = "customer.subscription.deleted" ->
         handleSubscriptionDeleted(event, found)
    [] event.type = "invoice.paid" -> handleInvoicePaid(event)
    [] event.type = "invoice.payment_failed" ->
         handleInvoicePaymentFailed(event, found)
    [] OTHER -> <<>>

IsEffect(call) == call.kind # "query"

\* the calls that went through when the fail-th call threw (0: none did)
effects(calls, fail) ==
  SelectSeq(SubSeq(calls, 1, IF fail = 0 THEN Len(calls) ELSE fail - 1),
            IsEffect)

Response(status, body) == [status |-> status, body |-> body]

\* variant: an event type without a handler is refused
webhook_refuseUnhandled(request, found, fail) ==
  IF request.signature = NoSignature
    THEN [response |-> Response(400, MISSING_SIGNATURE), ran |-> FALSE,
          calls |-> <<>>]
  ELSE IF ~constructEvent(request.body, request.signature,
                          STRIPE_WEBHOOK_SECRET)
    THEN [response |-> Response(400, ERROR_BODY), ran |-> FALSE,
          calls |-> <<>>]
  ELSE LET calls == dispatch(request.body, found) IN
       IF request.body.type \notin HandledTypes
         THEN [response |-> Response(400, ERROR_BODY), ran |-> FALSE,
               calls |-> <<>>]
       ELSE IF fail > Len(calls)
         THEN [response |-> Response(200, RECEIVED), ran |-> TRUE,
               calls |-> effects(calls, 0)]
         ELSE [response |-> Response(400, ERROR_BODY), ran |-> TRUE,
               calls |-> effects(calls, fail)]

\* the route handler: what it answers, whether a handler ran, and the calls
\* that went through
webhook(request, found, fail) ==
  IF request.signature = NoSignature
    THEN [response |-> Response(400, MISSING_SIGNATURE), ran |-> FALSE,
          calls |-> <<>>]
  ELSE IF ~constructEvent(request.body, request.signature,
                          STRIPE_WEBHOOK_SECRET)
    THEN [response |-> Response(400, ERROR_BODY), ran |-> FALSE,
          calls |-> <<>>]
  ELSE LET calls == dispatch(request.body, found) IN
       IF fail > Len(calls)
         THEN [response |-> Response(200, RECEIVED),
               ran |-> request.body.type \in HandledTypes,
               calls |-> effects(calls, 0)]
         ELSE [response |-> Response(400, ERROR_BODY), ran |-> TRUE,
               calls |-> effects(calls, fail)]

InitWebhook ==
  /\ tasks = <<>>
  /\ nextId = 1
  /\ buckets = [u \in Users |-> FreshBuckets]
  /\ now = 0
  /\ writes = 0
  /\ res = [op |-> "none"]
  /\ guard = NotMounted
  /\ txns = NoTxns
  /\ pay = [calls |-> <<>>, served |-> 0]

\* a request is served; fail names the call that throws, a number beyond
\* the handler's calls when none does
Webhook ==
  /\ pay.served < MaxRequests
  /\ \E request \in Requests, found \in BOOLEAN, fail \in 1..4 :
       LET o == webhook(request, found, fail) IN
       /\ pay' = [calls |-> pay.calls \o o.calls, served |-> pay.served + 1]
       /\ res' = [op |-> "webhook", request |-> request, found |-> found,
                  fail |-> fail, response |-> o.response, ran |-> o.ran]
       /\ UNCHANGED <<tasks, nextId, buckets, now, writes, guard, txns>>

NextWebhook == Webhook

SpecWebhook == InitWebhook /\ [][NextWebhook]_vars

----------------------------------------------------------------------------
(* Billing: createSubscriptionCheckout.  It is an action: each runQuery,   *)
(* runAction and runMutation it awaits is a call of its own, and other     *)
(* calls of the action may run between them.  pay holds the users table,   *)
(* the customers and checkout sessions of the payment processor (a         *)
(* customer's id names its position in customers), the stored checkout     *)
(* sessions and the number of calls made; txns holds each call's position  *)
(* and locals.                                                             *)

USER_NOT_FOUND == "User not found"
PROCESSOR_ERROR == "payment processor error"

\* the userId arguments: the users, and an id no user record has
UserIds == Users \cup {NoUser}

InitCheckout ==
  /\ tasks = <<>>
  /\ nextId = 1
  /\ buckets = [u \in Users |-> FreshBuckets]
  /\ now = 0
  /\ writes = 0
  /\ res = [op |-> "none"]
  /\ guard = NotMounted
  /\ txns = [s \in Slots |-> Idle]
  /\ pay = [users |-> [u \in Users |-> [stripeCustomerId |-> Undefined]],
            customers |-> <<>>, sessions |-> <<>>, checkouts |-> <<>>,
            calls |-> 0]

\* the id the processor gives its n-th customer
CustomerId(n) == <<"cus", n>>

\* components.internal.users.get
users_get(userId) ==
  IF userId \in DOMAIN pay.users THEN pay.users[userId] ELSE Null

\* components.internal.users.updateStripeCustomer
updateStripeCustomer(users, userId, stripeCustomerId) ==
  [users EXCEPT ![userId].stripeCustomerId = stripeCustomerId]

\* components.autumn.createCustomer: the processor's customers after it
createCustomer(customers, userId) == Append(customers, userId)

\* the catch block's result
CheckoutFailed(s, message) ==
  txns' = [txns EXCEPT ![s].pc = "done",
                       ![s].ret = [success |-> FALSE, error |-> message]]

\* a call arrives and reads the user
GetUser(s) ==
  /\ txns[s].pc \in {"idle", "done"}
  /\ pay.calls < MaxCheckouts
  /\ \E userId \in UserIds :
       LET user == users_get(userId)
           call == [pc |-> "idle", userId |-> userId,
                    customerId |-> Undefined, sessionId |-> NoId,
                    ret |-> Undefined]
       IN txns' = [txns EXCEPT ![s] =
            IF user = Null
              THEN [call EXCEPT !.pc = "done",
                      !.ret = [success |-> FALSE, error |-> USER_NOT_FOUND]]
            ELSE IF user.stripeCustomerId = Undefined
              THEN [call EXCEPT !.pc = "createCustomer"]
            ELSE [call EXCEPT !.pc = "createCheckoutSession",
                              !.customerId = user.stripeCustomerId]]
  /\ pay' = [pay EXCEPT !.calls = @ + 1]
  /\ UNCHANGED <<tasks, nextId, buckets, now, writes, res, guard>>

\* the user has no customer id: the processor creates a customer, or fails
CreateCustomer(s) ==
  /\ txns[s].pc = "createCustomer"
  /\ \/ /\ pay' = [pay EXCEPT
               !.customers = createCustomer(@, txns[s].userId)]
        /\ txns' = [txns EXCEPT ![s].pc = "updateStripeCustomer",
                                ![s].customerId =
                                  CustomerId(Len(pay.customers) + 1)]
     \/ /\ CheckoutFailed(s, PROCESSOR_ERROR)
        /\ UNCHANGED pay
  /\ UNCHANGED <<tasks, nextId, buckets, now, writes, res, guard>>

\* the new customer's id is stored on the user
UpdateStripeCustomer(s) ==
  /\ txns[s].pc = "updateStripeCustomer"
  /\ pay' = [pay EXCEPT
       !.users = updateStripeCustomer(@, txns[s].userId, txns[s].customerId)]
  /\ txns' = [txns EXCEPT ![s].pc = "createCheckoutSession"]
  /\ UNCHANGED <<tasks, nextId, buckets, now, writes, res, guard>>

\* the processor creates the checkout session of the customer, or fails
CreateCheckoutSession(s) ==
  /\ txns[s].pc = "createCheckoutSession"
  /\ \/ /\ pay' = [pay EXCEPT
               !.sessions = Append(@, txns[s].customerId)]
        /\ txns' = [txns EXCEPT ![s].pc = "storeCheckoutSession",
                                ![s].sessionId = Len(pay.sessions) + 1]
     \/ /\ CheckoutFailed(s, PROCESSOR_ERROR)
        /\ UNCHANGED pay
  /\ UNCHANGED <<tasks, nextId, buckets, now, writes, res, guard>>

\* the session is stored as pending and the call returns it
StoreCheckoutSession(s) ==
  /\ txns[s].pc = "storeCheckoutSession"
  /\ pay' = [pay EXCEPT
       !.checkouts = Append(@, [userId |-> txns[s].userId,
                                sessionId |-> txns[s].sessionId,
                                status |-> "pending"])]
  /\ txns' = [txns EXCEPT
       ![s].pc = "done",
       ![s].ret = [success |-> TRUE, sessionId |-> txns[s].sessionId]]
  /\ UNCHANGED <<tasks, nextId, buckets, now, writes, res, guard>>

NextCheckout ==
  \/ \E s \in Slots : GetUser(s)
  \/ \E s \in Slots : CreateCustomer(s)
  \/ \E s \in Slots : UpdateStripeCustomer(s)
  \/ \E s \in Slots : CreateCheckoutSession(s)
  \/ \E s \in Slots : StoreCheckoutSession(s)

SpecCheckout == InitCheckout /\ [][NextCheckout]_vars

----------------------------------------------------------------------------
(* Billing: cancelSubscription, an action of three awaited calls.  pay     *)
(* holds the local subscription records and the processor's subscriptions, *)
(* both by user; txns holds the call's position, arguments and result.     *)

NO_ACTIVE_SUBSCRIPTION == "No active subscription found"
DATABASE_ERROR == "database error"

\* canceledAt of a record that was never marked
NotCanceled == <<>>

\* the optional immediate argument: true, false or left out
Immediates == {"true", "false", "undefined"}

StripeSubscriptionId(userId) == <<"sub", userId>>

ActiveSubscription(userId) ==
  [stripeSubscriptionId |-> StripeSubscriptionId(userId),
   cancelAtPeriodEnd |-> FALSE, canceledAt |-> NotCanceled]

ActiveAtProcessor == [status |-> "active", cancel_at_period_end |-> FALSE]

\* each user is subscribed, locally and at the processor, or is not
InitCancel ==
  /\ tasks = <<>>
  /\ nextId = 1
  /\ buckets = [u \in Users |-> FreshBuckets]
  /\ now = 0
  /\ writes = 0
  /\ res = [op |-> "none"]
  /\ guard = NotMounted
  /\ txns = Idle
  /\ \E subscribed \in SUBSET Users :
       pay = [subscriptions |->
                [u \in Users |-> IF u \in subscribed
                                   THEN ActiveSubscription(u) ELSE Null],
              processor |->
                [u \in Users |-> IF u \in subscribed
                                   THEN ActiveAtProcessor ELSE Null],
              calls |-> 0]

\* components.internal.subscriptions.getCurrent
getCurrent(userId) ==
  IF userId \in DOMAIN pay.subscriptions
    THEN pay.subscriptions[userId] ELSE Null

\* args.immediate || false, and !args.immediate
truthy(value) == value = "true"

\* components.autumn.cancelSubscription: the processor's subscriptions
\* after it
autumnCancelSubscription(processor, userId, immediate) ==
  [processor EXCEPT ![userId] =
     IF immediate THEN [@ EXCEPT !.status = "canceled"]
     ELSE [@ EXCEPT !.cancel_at_period_end = TRUE]]

\* components.internal.subscriptions.markCanceled
markCanceled(subscriptions, userId, cancelAtPeriodEnd, canceledAt) ==
  [subscriptions EXCEPT ![userId] =
     [@ EXCEPT !.cancelAtPeriodEnd = cancelAtPeriodEnd,
               !.canceledAt = canceledAt]]

\* the call returns
CancelReturned(ret) == txns' = [txns EXCEPT !.pc = "done", !.ret = ret]

\* a call arrives and reads the user's current subscription
GetCurrent ==
  /\ txns.pc \in {"idle", "done"}
  /\ pay.calls < MaxCancels
  /\ \E userId \in UserIds, immediate \in Immediates :
       LET subscription == getCurrent(userId)
           call == [pc |-> "cancel", userId |-> userId,
                    immediate |-> immediate, before |-> pay,
                    ret |-> Undefined]
       IN txns' = IF subscription = Null
                    THEN [call EXCEPT !.pc = "done",
                            !.ret = [success |-> FALSE,
                                     error |-> NO_ACTIVE_SUBSCRIPTION]]
                  ELSE call
  /\ pay' = [pay EXCEPT !.calls = @ + 1]
  /\ UNCHANGED <<tasks, nextId, buckets, now, writes, res, guard>>

\* the processor cancels the subscription, or fails
CancelInStripe ==
  /\ txns.pc = "cancel"
  /\ \/ /\ pay' = [pay EXCEPT !.processor =
               autumnCancelSubscription(@, txns.userId,
                                        truthy(txns.immediate))]
        /\ txns' = [txns EXCEPT !.pc = "markCanceled"]
     \/ /\ CancelReturned([success |-> FALSE, error |-> PROCESSOR_ERROR])
        /\ UNCHANGED pay
  /\ UNCHANGED <<tasks, nextId, buckets, now, writes, res, guard>>

\* the local record is marked and the call returns, or the mutation fails
\* and the catch block returns
UpdateInDatabase ==
  /\ txns.pc = "markCanceled"
  /\ \/ /\ pay' = [pay EXCEPT !.subscriptions =
               markCanceled(@, txns.userId, ~truthy(txns.immediate),
                            <<now>>)]
        /\ CancelReturned([success |-> TRUE,
                          canceledAt |-> IF truthy(txns.immediate)
                                           THEN "immediately"
                                           ELSE "at period end"])
     \/ /\ CancelReturned([success |-> FALSE, error |-> DATABASE_ERROR])
        /\ UNCHANGED pay
  /\ UNCHANGED <<tasks, nextId, buckets, now, writes, res, guard>>

NextCancel ==
  \/ GetCurrent
  \/ CancelInStripe
  \/ UpdateInDatabase

SpecCancel == InitCancel /\ [][NextCancel]_vars

----------------------------------------------------------------------------
(* Vocabulary of the properties *)

\* a step that is an endpoint call (every other step is a clock tick)
Called == now' = now

SingleTaskOps == {"get", "update", "toggleStatus", "remove"}
MutationOps == {"create", "update", "toggleStatus", "remove"}

BucketOf(op) ==
  CASE op = "create" -> "createTask"
    [] op = "update" -> "updateTask"
    [] op = "toggleStatus" -> "updateTask"
    [] op = "remove" -> "deleteTask"

NotAuthorizedOf(op) ==
  CASE op = "get" -> NOT_AUTHORIZED_VIEW
    [] op = "update" -> NOT_AUTHORIZED_UPDATE
    [] op = "toggleStatus" -> NOT_AUTHORIZED_UPDATE
    [] op = "remove" -> NOT_AUTHORIZED_DELETE

\* the call just made names an existing task that its caller, a user, does
\* not own
ForeignCall ==
  /\ Called
  /\ res'.op \in SingleTaskOps
  /\ res'.caller \in Users
  /\ res'.id \in DOMAIN tasks
  /\ tasks[res'.id].userId # res'.caller

----------------------------------------------------------------------------
\* C1: a call by user B to get, update, toggleStatus or remove that names a
\* task owned by another user A returns nothing of that task and leaves the
\* task's record exactly as it was.
C1_Isolation ==
  [][ForeignCall =>
        /\ res'.id \in DOMAIN tasks'
        /\ tasks'[res'.id] = tasks[res'.id]
        /\ \A k \in 1..Len(res'.val) : res'.val[k]._id # res'.id]_vars

\* B has called update with a new status on A's task
C1_Witness ==
  /\ res.op = "update"
  /\ res.status = "completed"
  /\ res.caller \in Users
  /\ res.id \in DOMAIN tasks
  /\ tasks[res.id].userId # res.caller
  /\ tasks[res.id].status = "active"

\* C2 as stated: such a call always fails with the not-authorized error,
\* whatever the state of B's buckets.
C2_AlwaysNotAuthorized ==
  [][ForeignCall => res'.err = NotAuthorizedOf(res'.op)]_vars

\* C2 amended: such a call fails with the not-authorized error when it is a
\* get or when B's bucket for the operation holds a token, and with the
\* rate-limit error when that bucket is empty; it never succeeds.
C2_NotAuthorizedUnlessLimited ==
  [][ForeignCall =>
        IF res'.op # "get" /\ buckets[res'.caller][BucketOf(res'.op)] < 1
          THEN res'.err = RATE_LIMITED /\ res'.retry > 0
          ELSE res'.err = NotAuthorizedOf(res'.op)]_vars

\* B, holding a token, has called remove on A's task and was refused
C2_Witness ==
  /\ res.op = "remove"
  /\ res.err = NOT_AUTHORIZED_DELETE
  /\ res.caller \in Users
  /\ res.id \in DOMAIN tasks
  /\ tasks[res.id].userId # res.caller

\* C3: every endpoint call without a caller identity fails with
\* "Not authenticated", returns nothing, and changes neither the tasks table
\* nor any bucket.
C3_Unauthenticated ==
  [][(Called /\ res'.caller = NoUser) =>
        /\ res'.err = NOT_AUTHENTICATED
        /\ res'.val = <<>> /\ res'.num = NoNum /\ res'.ret = NoId
        /\ tasks' = tasks
        /\ buckets' = buckets]_vars

\* an anonymous list was refused while tasks exist
C3_Witness ==
  /\ res.op = "list"
  /\ res.caller = NoUser
  /\ res.err = NOT_AUTHENTICATED
  /\ DOMAIN tasks # {}

\* C4: a create, update, toggleStatus or remove that ends in an error leaves
\* the tasks table as it was.
C4_NoPartialApplication ==
  [][(Called /\ res'.op \in MutationOps /\ res'.err # OK) =>
        tasks' = tasks]_vars

\* the owner's update carried a new status and an empty title, and failed
C4_Witness ==
  /\ res.op = "update"
  /\ res.err = TASK_TITLE_EMPTY
  /\ res.status = "completed"
  /\ res.id \in DOMAIN tasks
  /\ tasks[res.id].status = "active"

\* C5: a mutation reports the error of the first failing check in the order
\* authentication, rate limit, existence, ownership, field validation.
C5_CheckOrder ==
  [][(Called /\ res'.op \in MutationOps) =>
        IF res'.caller = NoUser
          THEN res'.err = NOT_AUTHENTICATED
        ELSE IF buckets[res'.caller][BucketOf(res'.op)] < 1
          THEN res'.err = RATE_LIMITED
        ELSE IF res'.op # "create" /\ res'.id \notin DOMAIN tasks
          THEN res'.err = NOT_FOUND
        ELSE IF res'.op # "create" /\ tasks[res'.id].userId # res'.caller
          THEN res'.err = NotAuthorizedOf(res'.op)
        ELSE IF res'.op \in {"toggleStatus", "remove"}
          THEN res'.err = OK
        ELSE IF /\ res'.title # Undefined
                /\ Len(trim(SelectSeq(res'.title, NotNul))) = 0
          THEN res'.err = TASK_TITLE_EMPTY
        ELSE res'.err \in {OK, TASK_TITLE_TOO_LONG,
                           TASK_DESCRIPTION_TOO_LONG}]_vars

\* an update with an empty title on an id that names no task was answered
\* "Task not found"
C5_Witness ==
  /\ res.op = "update"
  /\ res.title = <<>>
  /\ res.caller \in Users
  /\ res.id \notin DOMAIN tasks
  /\ res.err = NOT_FOUND

\* C6: a successful create by user U inserts exactly one new task, owned by
\* U, active, titled with the sanitized input, with createdAt = updatedAt;
\* U's list then contains it, and every task that existed is unchanged.
C6_CreateInserts ==
  [][(Called /\ res'.op = "create" /\ res'.err = OK) =>
        LET id == res'.ret
            listed == getTasksByUser(tasks', res'.caller)
        IN /\ id \notin DOMAIN tasks
           /\ DOMAIN tasks' = DOMAIN tasks \cup {id}
           /\ tasks'[id].userId = res'.caller
           /\ tasks'[id].status = "active"
           /\ tasks'[id].title = sanitizeString(res'.title, 200)
           /\ tasks'[id].createdAt = tasks'[id].updatedAt
           /\ \E k \in 1..Len(listed) : listed[k]._id = id
           /\ \A j \in DOMAIN tasks : tasks'[j] = tasks[j]]_vars

\* a create at clock 1, next to an existing task, stored a title that the
\* sanitizer changed
C6_Witness ==
  /\ res.op = "create"
  /\ res.err = OK
  /\ res.title = <<" ", "a">>
  /\ res.ret \in DOMAIN tasks
  /\ tasks[res.ret].title = <<"a">>
  /\ tasks[res.ret].createdAt = 1
  /\ Cardinality(DOMAIN tasks) = 2

\* C7: create by an authenticated user who holds a createTask token, with a
\* title that is empty once NUL characters are removed and it is trimmed,
\* fails with "Task title cannot be empty" and inserts nothing.
C7_EmptyTitleRejected ==
  [][(/\ Called
      /\ res'.op = "create"
      /\ res'.caller \in Users
      /\ buckets[res'.caller]["createTask"] >= 1
      /\ Len(trim(SelectSeq(res'.title, NotNul))) = 0) =>
        /\ res'.err = TASK_TITLE_EMPTY
        /\ tasks' = tasks]_vars

\* a title of blanks around a NUL was rejected as empty
C7_Witness ==
  /\ res.op = "create"
  /\ res.title = <<" ", NUL, " ">>
  /\ res.err = TASK_TITLE_EMPTY

\* C9: one successful toggleStatus maps active to completed and completed
\* to active, and a second one directly after it on the same task restores
\* the status the task had before the first; a call that does not name a
\* task leaves that task's status alone.
C9_ToggleTwice ==
  [][/\ (Called /\ res'.op = "toggleStatus" /\ res'.err = OK) =>
          /\ res'.id \in DOMAIN tasks /\ res'.id \in DOMAIN tasks'
          /\ tasks[res'.id].status = "active"
               => tasks'[res'.id].status = "completed"
          /\ tasks[res'.id].status = "completed"
               => tasks'[res'.id].status = "active"
          /\ (res.op = "toggleStatus" /\ res.err = OK /\ res.id = res'.id)
               => tasks'[res'.id].status = res.was
     /\ Called =>
          \A j \in DOMAIN tasks \ {res'.id} :
            j \in DOMAIN tasks' /\ tasks'[j].status = tasks[j].status]_vars

\* a toggleStatus has brought a completed task back to active
C9_Witness ==
  /\ res.op = "toggleStatus"
  /\ res.err = OK
  /\ res.was = "completed"
  /\ res.id \in DOMAIN tasks
  /\ tasks[res.id].status = "active"
  /\ writes = 3

\* C8: a create, or an update that reaches validation, with a title longer
\* than 200 characters fails with the title-too-long message, and with a
\* description longer than 2000 characters fails with the
\* description-too-long message; nothing is stored.
C8_TooLongRejected ==
  [][(/\ Called
      /\ res'.op \in {"create", "update"}
      /\ res'.caller \in Users
      /\ buckets[res'.caller][BucketOf(res'.op)] >= 1
      /\ res'.op = "update" =>
           /\ res'.id \in DOMAIN tasks
           /\ tasks[res'.id].userId = res'.caller
      /\ \/ res'.title # Undefined /\ Len(res'.title) > 200
         \/ res'.description # Undefined /\ Len(res'.description) > 2000) =>
        /\ res'.err =
             IF res'.title # Undefined /\ Len(res'.title) > 200
               THEN TASK_TITLE_TOO_LONG
               ELSE TASK_DESCRIPTION_TOO_LONG
        /\ tasks' = tasks]_vars

\* C10: summary called by user U returns the number of U's tasks, the
\* numbers of U's active and completed tasks, and the completion rate
\* completed / total x 100 rounded to the nearest integer (halves up), 0 when
\* U has no task.
C10_SummaryCounts ==
  (res.op = "summary" /\ res.caller \in Users) =>
    LET owned == {i \in DOMAIN tasks : tasks[i].userId = res.caller}
        total == Cardinality(owned)
        active == Cardinality({i \in owned : tasks[i].status = "active"})
        completed ==
          Cardinality({i \in owned : tasks[i].status = "completed"})
        rate == res.num.completionRate
    IN /\ res.err = OK
       /\ res.num.totalTasks = total
       /\ res.num.activeTasks = active
       /\ res.num.completedTasks = completed
       /\ IF total = 0 THEN rate = 0
          ELSE /\ 2 * rate * total <= 200 * completed + total
               /\ 200 * completed + total < 2 * rate * total + 2 * total

\* two of a user's three tasks are completed and summary reported 67
C10_Witness ==
  /\ res.op = "summary"
  /\ res.err = OK
  /\ res.num = [totalTasks |-> 3, activeTasks |-> 1, completedTasks |-> 2,
                completionRate |-> 67]

----------------------------------------------------------------------------
(* Rate limiting *)

\* the creates a user can have had admitted by the clock value t, from a
\* full createTask bucket at clock 0
CreateBudget(t) ==
  Capacity["createTask"] + (Rate["createTask"] * t * TickMs) \div MINUTE

\* C11 as stated: for any timing of 21 create calls of one user within a
\* one-minute interval that starts from a full createTask bucket, at least
\* one fails with the rate-limit error; so 21 tasks of the user created in
\* less than a minute never exist.
C11_BurstOf21Limited ==
  (now * TickMs < MINUTE) => countTasksByUser(tasks, "A") < 21

\* C11, amended: from a full createTask bucket at clock 0, an authenticated
\* create with a valid title made when the user's admitted creates have
\* reached 5 + (20 per minute of elapsed time) fails with the rate-limit
\* error and a positive retry-after and stores nothing; so no more creates
\* than that budget are ever admitted.
C11_BurstBudget ==
  [][(Called /\ res'.op = "create" /\ res'.caller = "A"
        /\ countTasksByUser(tasks, "A") >= CreateBudget(now)) =>
       /\ res'.err = RATE_LIMITED
       /\ res'.retry > 0
       /\ tasks' = tasks
       /\ countTasksByUser(tasks', "A") <= CreateBudget(now)]_vars

\* after the clock advanced, a create beyond the budget was refused
C11_Witness ==
  /\ res.op = "create"
  /\ res.caller = "A"
  /\ res.err = RATE_LIMITED
  /\ res.retry > 0
  /\ now > 0
  /\ countTasksByUser(tasks, "A") = CreateBudget(now)

----------------------------------------------------------------------------
(* Validation helpers *)

\* C12: for every input and every maxLength >= 0, the output of
\* sanitizeString contains no NUL, has no leading and no trailing
\* whitespace, and is at most maxLength long.
C12_SanitizedTrimmed ==
  res.op = "sanitizeString" =>
    LET out == res.output IN
    /\ \A i \in 1..Len(out) : out[i] # NUL
    /\ Len(out) > 0 => out[1] \notin Whitespace /\ out[Len(out)] \notin Whitespace
    /\ Len(out) <= res.maxLength

\* C13: isValidTaskTitle(s) is true exactly when s has a character that is
\* not whitespace and its first and last such characters are at most 200
\* positions apart, i.e. when 1 <= length(trim(s)) <= 200.
C13_ValidTitle ==
  res.op = "isValidTaskTitle" =>
    LET s == res.input
        text == {i \in 1..Len(s) : s[i] \notin Whitespace}
    IN res.output =
         /\ text # {}
         /\ \A i \in text, j \in text : j - i + 1 <= 200

\* a title of 200 characters with whitespace around it is valid, and one of
\* 201 characters is not
C13_Witness ==
  /\ res.op = "isValidTaskTitle"
  /\ \/ Len(res.input) = 202 /\ res.output = TRUE
     \/ Len(res.input) = 201 /\ res.output = FALSE
                             /\ res.input[1] = "a" /\ res.input[201] = "a"

\* C14: isValidTaskDescription is true for undefined and for every string of
\* length <= 2000, counted without trimming, and false for every string of
\* length > 2000.
C14_ValidDescription ==
  res.op = "isValidTaskDescription" =>
    res.output = (res.input = Undefined \/ Len(res.input) <= 2000)

\* 2001 blanks are refused
C14_Witness ==
  /\ res.op = "isValidTaskDescription"
  /\ Len(res.input) = 2001
  /\ trim(res.input) = <<>>
  /\ res.output = FALSE

----------------------------------------------------------------------------
(* Stored tasks *)

\* C15: every stored task has updatedAt >= createdAt, and no call changes
\* the createdAt or lowers the updatedAt of a task, the clock never running
\* backwards.
C15_Timestamps ==
  [][/\ \A i \in DOMAIN tasks' : tasks'[i].updatedAt >= tasks'[i].createdAt
     /\ \A i \in DOMAIN tasks \cap DOMAIN tasks' :
          /\ tasks'[i].createdAt = tasks[i].createdAt
          /\ tasks'[i].updatedAt >= tasks[i].updatedAt]_vars

\* a task created at clock 0 was updated or toggled at a later clock
C15_Witness ==
  /\ res.op \in {"update", "toggleStatus"}
  /\ res.err = OK
  /\ res.id \in DOMAIN tasks
  /\ tasks[res.id].createdAt = 0
  /\ tasks[res.id].updatedAt > 0

\* C16: in every state reached through create and update, each stored
\* title is non-empty after trimming and at most 200 characters long, and
\* each stored description is at most 2000 characters long.
C16_StoredText ==
  \A i \in DOMAIN tasks :
    /\ Len(trim(tasks[i].title)) >= 1
    /\ Len(tasks[i].title) <= 200
    /\ tasks[i].description # Undefined => Len(tasks[i].description) <= 2000

\* a title of 201 and a description of 2001 characters were given, and the
\* task holds 200 and 2000 characters
C16_Witness ==
  \E i \in DOMAIN tasks :
    /\ Len(tasks[i].title) = 200
    /\ tasks[i].description # Undefined
    /\ Len(tasks[i].description) = 2000
    /\ res.err = OK
    /\ \/ res.title # Undefined /\ Len(res.title) = 201
       \/ res.description # Undefined /\ Len(res.description) = 2001

\* C17: a successful update changes, of the task it names, only the fields
\* it supplies and updatedAt: the task's userId and createdAt, its fields
\* that are not supplied, and every other task stay as they were; and no
\* call ever changes the owner of a task.
C17_UpdateFrame ==
  [][/\ (Called /\ res'.op = "update" /\ res'.err = OK) =>
          LET id == res'.id IN
          /\ id \in DOMAIN tasks
          /\ DOMAIN tasks' = DOMAIN tasks
          /\ tasks'[id].userId = tasks[id].userId
          /\ tasks'[id].createdAt = tasks[id].createdAt
          /\ tasks'[id].updatedAt = now
          /\ res'.title = Undefined => tasks'[id].title = tasks[id].title
          /\ res'.title # Undefined =>
               tasks'[id].title = sanitizeString(res'.title, 200)
          /\ res'.description = Undefined =>
               tasks'[id].description = tasks[id].description
          /\ res'.status = NoStatus => tasks'[id].status = tasks[id].status
          /\ res'.status # NoStatus => tasks'[id].status = res'.status
          /\ \A j \in DOMAIN tasks \ {id} : tasks'[j] = tasks[j]
     /\ \A i \in DOMAIN tasks \cap DOMAIN tasks' :
          tasks'[i].userId = tasks[i].userId]_vars

\* next to another task, an update that supplied only a status completed a
\* task at a later clock and left its title alone
C17_Witness ==
  /\ res.op = "update"
  /\ res.err = OK
  /\ res.title = Undefined
  /\ res.status = "completed"
  /\ res.id \in DOMAIN tasks
  /\ tasks[res.id].status = "completed"
  /\ tasks[res.id].title = <<"a">>
  /\ tasks[res.id].updatedAt > tasks[res.id].createdAt
  /\ Cardinality(DOMAIN tasks) = 2

----------------------------------------------------------------------------
(* Queries *)

\* C18: list called by user U returns exactly U's tasks, each once, as they
\* are stored, the newest created first; listByStatus(s) called by U returns
\* exactly U's tasks whose status is s.
C18_Lists ==
  (res.op \in {"list", "listByStatus"} /\ res.caller \in Users) =>
    LET val == res.val
        expected ==
          {i \in DOMAIN tasks :
             /\ tasks[i].userId = res.caller
             /\ res.op = "listByStatus" => tasks[i].status = res.status}
    IN /\ res.err = OK
       /\ {val[k]._id : k \in 1..Len(val)} = expected
       /\ Len(val) = Cardinality(expected)
       /\ \A k \in 1..Len(val) :
            /\ val[k].userId = tasks[val[k]._id].userId
            /\ val[k].title = tasks[val[k]._id].title
            /\ val[k].status = tasks[val[k]._id].status
            /\ val[k].createdAt = tasks[val[k]._id].createdAt
       /\ res.op = "list" =>
            \A k \in 1..Len(val), l \in 1..Len(val) :
              k < l => /\ val[k]._id > val[l]._id
                       /\ val[k].createdAt >= val[l].createdAt

\* while the other user has a task too, list returned the caller's two
\* tasks, the one created at the later clock first
C18_Witness ==
  /\ res.op = "list"
  /\ res.err = OK
  /\ Len(res.val) = 2
  /\ res.val[1].createdAt > res.val[2].createdAt
  /\ Cardinality(DOMAIN tasks) = 3

\* C19: recent called by user U, who has n tasks, returns min(10, n) tasks,
\* so at most 10, all of them U's: the most recently created ones, in
\* descending order of creation.
C19_Recent ==
  (res.op = "recent" /\ res.caller \in Users) =>
    LET val == res.val
        owned == {i \in DOMAIN tasks : tasks[i].userId = res.caller}
        returned == {val[k]._id : k \in 1..Len(val)}
        n == Cardinality(owned)
    IN /\ res.err = OK
       /\ Len(val) <= 10
       /\ Len(val) = IF n < 10 THEN n ELSE 10
       /\ Cardinality(returned) = Len(val)
       /\ returned \subseteq owned
       /\ \A k \in 1..Len(val) :
            /\ val[k].title = tasks[val[k]._id].title
            /\ val[k].status = tasks[val[k]._id].status
            /\ val[k].createdAt = tasks[val[k]._id].createdAt
       /\ \A k \in 1..Len(val), l \in 1..Len(val) :
            k < l => /\ val[k]._id > val[l]._id
                     /\ val[k].createdAt >= val[l].createdAt
       /\ \A i \in owned \ returned, j \in returned :
            i < j /\ tasks[i].createdAt <= tasks[j].createdAt

\* the caller has 11 tasks, created at several clocks after the other
\* user's task, and recent returned the 10 newest
C19_Witness ==
  /\ res.op = "recent"
  /\ res.caller = "A"
  /\ res.err = OK
  /\ Len(res.val) = 10
  /\ res.val[1]._id = 12
  /\ res.val[10]._id = 3
  /\ res.val[1].createdAt > res.val[10].createdAt
  /\ countTasksByUser(tasks, "A") = 11
  /\ countTasksByUser(tasks, "B") = 1

\* the ids of the tasks that were removed: ids are issued in sequence and
\* only a successful remove takes a document out of the table
Removed == (1..(nextId - 1)) \ DOMAIN tasks

----------------------------------------------------------------------------
(* Buckets *)

\* C21: a mutation called by a user consults one bucket, that of the caller
\* named createTask for create, updateTask for update and for toggleStatus,
\* deleteTask for remove: the call fails with the rate-limit error exactly
\* when that bucket is empty, a call that succeeds takes one token from it,
\* and no other bucket of any user changes.  list, listByStatus, get and
\* the dashboard queries change no bucket and never fail with the
\* rate-limit error.
C21_OneBucket ==
  [][(Called /\ res'.caller \in Users) =>
       IF res'.op \in MutationOps
         THEN LET key == res'.caller
                  name == BucketOf(res'.op)
              IN /\ res'.err = RATE_LIMITED <=> buckets[key][name] < 1
                 /\ res'.err = OK =>
                      buckets' = [buckets EXCEPT ![key][name] = @ - 1]
                 /\ res'.err # OK => buckets' = buckets
         ELSE /\ buckets' = buckets
              /\ res'.err # RATE_LIMITED]_vars

\* after a create, a toggleStatus has taken its token from the caller's
\* updateTask bucket
C21_Witness ==
  /\ res.op = "toggleStatus"
  /\ res.err = OK
  /\ buckets[res.caller] =
       [createTask |-> Capacity["createTask"] - 1,
        updateTask |-> Capacity["updateTask"] - 1,
        deleteTask |-> Capacity["deleteTask"]]

\* C22: budgets are per user.  A call leaves the buckets of every user
\* other than its caller as they were, and whether a user's call fails with
\* the rate-limit error is decided by that user's own bucket alone: it
\* fails so only when the caller's bucket for the operation is empty, and
\* never while it holds a token, whatever the other user has spent.
C22_PerUserBudget ==
  [][Called =>
       /\ \A u \in Users \ {res'.caller} : buckets'[u] = buckets[u]
       /\ (res'.caller \in Users /\ res'.op \in MutationOps) =>
            (res'.err = RATE_LIMITED
               <=> buckets[res'.caller][BucketOf(res'.op)] < 1)]_vars

\* A has spent its whole createTask bucket on five tasks, and a create by B
\* went through
C22_Witness ==
  /\ res.op = "create"
  /\ res.caller = "B"
  /\ res.err = OK
  /\ countTasksByUser(tasks, "A") = 5
  /\ buckets["A"]["createTask"] = 0
  /\ buckets["B"]["createTask"] = Capacity["createTask"] - 1

----------------------------------------------------------------------------
(* Web client *)

\* C23: AuthGuard returns its children only from a render that saw the
\* session check finished and a session present; a render that saw the
\* check pending returns the loading skeleton only; a render that saw the
\* check finished without a session returns nothing, and its effect is due
\* or has already called router.push("/sign-in"), which nothing else does.
C23_AuthGuard ==
  [][guard'.mounted =>
       /\ guard'.output = "children" =>
            ~guard'.seen.isPending /\ guard'.seen.session \in Users
       /\ guard'.seen.isPending => guard'.output = "skeleton"
       /\ (~guard'.seen.isPending /\ guard'.seen.session = NoUser) =>
            /\ guard'.output = "null"
            /\ guard'.effect \/ guard'.pushed
       /\ (guard'.pushed /\ ~(guard.mounted /\ guard.pushed)) =>
            /\ guard.output = "null"
            /\ guard'.location = SIGN_IN
       /\ guard'.location # guard.location => guard'.pushed]_vars

\* the check ended without a session: nothing is rendered and the effect
\* has sent the user to /sign-in
C23_Witness ==
  /\ guard.mounted
  /\ guard.output = "null"
  /\ guard.pushed
  /\ ~guard.effect
  /\ guard.location = SIGN_IN
  /\ ~guard.isPending
  /\ guard.session = NoUser

----------------------------------------------------------------------------
(* Billing *)

\* the request just served carried a signature made for its body with the
\* webhook secret
Verified ==
  /\ res'.request.signature # NoSignature
  /\ res'.request.signature.body = res'.request.body
  /\ res'.request.signature.key = STRIPE_WEBHOOK_SECRET

\* a webhook request has just been served
Served == pay'.served = pay.served + 1

\* C24: a webhook request without a signature is answered 400 "Missing
\* signature" and one whose signature does not verify is answered 400; in
\* both cases no event handler runs and nothing changes.  A handler runs,
\* and state changes, only for a request whose signature was verified.
C24_VerifiedFirst ==
  [][Served =>
       /\ res'.request.signature = NoSignature =>
            /\ res'.response = Response(400, MISSING_SIGNATURE)
            /\ ~res'.ran
            /\ pay'.calls = pay.calls
       /\ (res'.request.signature # NoSignature /\ ~Verified) =>
            /\ res'.response.status = 400
            /\ ~res'.ran
            /\ pay'.calls = pay.calls
       /\ (res'.ran \/ pay'.calls # pay.calls) => Verified]_vars

\* after a verified request had its mutation run, a request signed for its
\* body with another key was answered 400
C24_Witness ==
  /\ res.op = "webhook"
  /\ res.request.signature # NoSignature
  /\ res.request.signature.body = res.request.body
  /\ res.request.signature.key # STRIPE_WEBHOOK_SECRET
  /\ res.response.status = 400
  /\ ~res.ran
  /\ Len(pay.calls) = 1
  /\ pay.served = 2

\* the local record of the user is marked cancelled
LocalCancelled(userId) ==
  /\ pay.subscriptions[userId] # Null
  /\ pay.subscriptions[userId].canceledAt # NotCanceled

\* the processor's subscription of the user is cancelled, now or at the end
\* of the period
ProcessorCancelled(userId) ==
  /\ pay.processor[userId] # Null
  /\ \/ pay.processor[userId].status = "canceled"
     \/ pay.processor[userId].cancel_at_period_end

\* C29: when cancelSubscription has returned, the local subscription record
\* and the payment processor agree on whether the user's subscription is
\* cancelled, and when it returned success false neither of them was
\* changed by the call.
C29_CancelAgrees ==
  (txns.pc = "done" /\ txns.userId \in Users) =>
    /\ LocalCancelled(txns.userId) <=> ProcessorCancelled(txns.userId)
    /\ ~txns.ret.success =>
         /\ pay.subscriptions = txns.before.subscriptions
         /\ pay.processor = txns.before.processor

\* C30: a verified webhook request none of whose handler's calls throws is
\* answered 200 with the body {received: true}; when its event type is none
\* of the six handled ones, no handler runs and nothing changes, and the
\* answer is 200 all the same.
C30_Received ==
  [][(Served /\ Verified) =>
       LET event == res'.request.body IN
       /\ res'.fail > Len(dispatch(event, res'.found)) =>
            res'.response = Response(200, RECEIVED)
       /\ event.type \notin HandledTypes =>
            /\ ~res'.ran
            /\ pay'.calls = pay.calls
            /\ res'.response = Response(200, RECEIVED)]_vars

\* a verified customer.created event was answered 200 and changed nothing
C30_Witness ==
  /\ res.op = "webhook"
  /\ res.request.signature # NoSignature
  /\ res.request.signature.body = res.request.body
  /\ res.request.signature.key = STRIPE_WEBHOOK_SECRET
  /\ res.request.body.type = "customer.created"
  /\ res.response = Response(200, RECEIVED)
  /\ ~res.ran
  /\ pay.calls = <<>>

----------------------------------------------------------------------------
(* Validation helpers, continued *)

CustomersOf(userId) ==
  {CustomerId(c) : c \in {n \in 1..Len(pay.customers) :
                             pay.customers[n] = userId}}

\* C28: however calls of createSubscriptionCheckout for one user interleave,
\* the payment processor holds at most one customer created for that user,
\* and the stripeCustomerId stored on the user, once set, is that customer's
\* id.
C28_OneCustomer ==
  \A u \in Users :
    /\ Cardinality(CustomersOf(u)) <= 1
    /\ pay.users[u].stripeCustomerId # Undefined
         => pay.users[u].stripeCustomerId \in CustomersOf(u)

\* C26: sanitizeString is idempotent: sanitizing its output again with the
\* same maxLength gives that output back.
C26_SanitizeIdempotent ==
  res.op = "sanitizeString" =>
    sanitizeString(res.output, res.maxLength) = res.output

----------------------------------------------------------------------------
(* Concurrency *)

====
